---------------------------- MODULE Spec2Model ----------------------------
(***************************************************************************)
(* HTTP logging middlewares of @gedai/common:                              *)
(*   src/src/logger/http-inspector-inbound.middleware.ts                   *)
(*   src/src/logger/log-http.middleware.ts                                 *)
(*                                                                         *)
(* Strings that the code inspects character by character (route patterns,  *)
(* request paths, regular-expression sources) are sequences of one-        *)
(* character strings.  Response bodies are opaque values named by strings; *)
(* Falsy says which of them JavaScript's `!` treats as false.              *)
(***************************************************************************)
EXTENDS Integers, Sequences, FiniteSets

\* ------------------------------------------------------------------ bounds
MaxPatLen == 3      \* longest ignore pattern enumerated
MaxPathLen == 3     \* longest request path enumerated
MaxEmit == 2        \* emission calls a handler makes on one response

\* ------------------------------------------------------------ input domains
PatChars == {"a", "/", "*"}
PathChars == {"a", "A", "/", " "}
Variants == {"inspector", "audit"}
Rids == {"r1", "r2"}
Native == "native"              \* Express' own res.send / res.json
Null == "null"                  \* JavaScript null
AllBodies == {"x", "y", "", "0", "false", Null}
StatusCodes == {200, 399, 400, 499, 500}
Modes == {"absent", "none", "all", "inbound", "outbound", "other"}

RECURSIVE SeqsUpTo(_, _)
SeqsUpTo(S, n) ==
  IF n = 0 THEN {<<>>}
  ELSE LET shorter == SeqsUpTo(S, n - 1)
       IN shorter \cup {Append(s, c) : s \in shorter, c \in S}

AllPatterns == SeqsUpTo(PatChars, MaxPatLen)
ShortPatterns == SeqsUpTo(PatChars, MaxPatLen - 1)
\* no pattern, one pattern, or two of the shorter ones
AllRouteLists ==
  {<<>>} \cup {<<p>> : p \in AllPatterns}
         \cup {<<p, q>> : p \in ShortPatterns, q \in ShortPatterns}
AllPaths == SeqsUpTo(PathChars, MaxPathLen)

RouteAStar == <<"/", "a", "/", "*">>
FewRouteLists == {<<>>, <<RouteAStar>>}
FewPaths == {<<"/", "a">>, <<"/", "a", "/", "a">>}

VARIABLES
  envMode,        \* ConfigService value of TRAFFIC_INSPECTION_HTTP, or "absent"
  optRoutes,      \* opts.ignoreRoutes handed to configureHttpInspectorInbound
  configured,     \* per variant: "no", "returned" or "threw" (its configure call)
  middlewares,    \* the application's middleware chain, in app.use order
  ignoredRoutes,  \* the inspector's compiled RegExp list
  configLog,      \* Logger.log messages of the configure step
  listening,      \* bootstrap is over, requests are served
  req,            \* per request: its path
  pc,             \* per request: "idle", "chain", "handling", "finished"
  pos,            \* per request: index of the next middleware to run
  res,            \* per response: send, json, statusCode, finish listeners
  closure,        \* per request and variant: the variables use() closes over
  nextCalls,      \* per request and variant: calls of next()
  logs,           \* per variant: the records its logger received
  origCalls,      \* per response: calls that reached Express' own operations
  emitted,        \* per response: the calls the handler made
  lastCall        \* what the last emission call did and gave its caller

vars == <<envMode, optRoutes, configured, middlewares, ignoredRoutes, configLog,
          listening, req, pc, pos, res, closure, nextCalls, logs, origCalls,
          emitted, lastCall>>

configVars == <<envMode, optRoutes, configured, middlewares, ignoredRoutes,
                configLog, listening>>

\* ------------------------------------------------------- String.prototype
IsWhiteSpace(c) == c = " "

RECURSIVE TrimStart(_)
TrimStart(s) ==
  IF s # <<>> /\ IsWhiteSpace(Head(s)) THEN TrimStart(Tail(s)) ELSE s

RECURSIVE TrimEnd(_)
TrimEnd(s) ==
  IF s # <<>> /\ IsWhiteSpace(s[Len(s)])
  THEN TrimEnd(SubSeq(s, 1, Len(s) - 1))
  ELSE s

\* req.path.trim()
Trim(s) == TrimEnd(TrimStart(s))

\* x.replace('*', '.+'): a string pattern replaces the first occurrence only
RECURSIVE ReplaceFirst(_, _, _)
ReplaceFirst(s, ch, rep) ==
  IF s = <<>> THEN <<>>
  ELSE IF Head(s) = ch THEN rep \o Tail(s)
  ELSE <<Head(s)>> \o ReplaceFirst(Tail(s), ch, rep)

\* ----------------------------------------------------------------- RegExp
\* Canonicalisation of the 'i' flag.
Canonicalize(c) == IF c = "A" THEN "a" ELSE c

\* The terms of a regular expression body over the characters the model
\* enumerates: `.` is any character, `+` and `*` quantify the term before
\* them, everything else is a literal.  A quantifier with nothing to repeat
\* (at the start, or after another quantifier) is a SyntaxError.
RECURSIVE ParseTerms(_, _)
ParseTerms(src, acc) ==
  IF src = <<>> THEN [ok |-> TRUE, terms |-> acc]
  ELSE LET c == Head(src)
           n == Len(acc)
       IN IF c \in {"*", "+"}
          THEN IF n = 0 \/ acc[n].quant # "one"
               THEN [ok |-> FALSE, terms |-> <<>>]
               ELSE ParseTerms(Tail(src),
                      [acc EXCEPT ![n].quant = IF c = "*" THEN "star" ELSE "plus"])
          ELSE ParseTerms(Tail(src),
                 Append(acc, [atom |-> IF c = "." THEN "any" ELSE c,
                              lit |-> c # ".",
                              quant |-> "one"]))

AtomMatches(t, c) == IF t.lit THEN Canonicalize(t.atom) = Canonicalize(c) ELSE TRUE

\* Whether the terms, followed by `$`, match all of s (the pattern starts with `^`).
RECURSIVE MatchTerms(_, _)
MatchTerms(ts, s) ==
  IF ts = <<>> THEN s = <<>>
  ELSE LET t == Head(ts)
           rest == Tail(ts)
       IN CASE t.quant = "one" ->
                 /\ s # <<>>
                 /\ AtomMatches(t, Head(s))
                 /\ MatchTerms(rest, Tail(s))
            [] t.quant = "plus" ->
                 /\ s # <<>>
                 /\ AtomMatches(t, Head(s))
                 /\ MatchTerms(<<[t EXCEPT !.quant = "star"]>> \o rest, Tail(s))
            [] t.quant = "star" ->
                 \/ MatchTerms(rest, s)
                 \/ /\ s # <<>>
                    /\ AtomMatches(t, Head(s))
                    /\ MatchTerms(ts, Tail(s))

\* new RegExp(`^${x.replace('*', '.+')}$`, 'i')
NewRegExp(x) == ParseTerms(ReplaceFirst(x, "*", <<".", "+">>), <<>>)

\* RegExp.prototype.test on an anchored expression
Test(re, s) == MatchTerms(re, s)

\* this.ignoredRoutes.some((x) => x.test(req.path.trim()))
shouldIgnoreRoute(routes, path) ==
  \E i \in 1..Len(routes) : Test(routes[i], Trim(path))


\* ------------------------------------------------------------ getLogLevel
getLogLevelAbove(statusCode) ==
  IF statusCode > 500 THEN "error"
  ELSE IF statusCode > 400 THEN "warn"
  ELSE "log"

getLogLevel(statusCode) ==
  IF statusCode >= 500 THEN "error"
  ELSE IF statusCode >= 400 THEN "warn"
  ELSE "log"

\* ------------------------------------------------------------- configure
\* configService.get('TRAFFIC_INSPECTION_HTTP', 'inbound')
ConfigGet(value, default) == IF value = "absent" THEN default ELSE value

\* ignoreRoutes.map((x) => new RegExp(...)): every pattern is compiled, and
\* one SyntaxError ends the call
CompileRoutes(routes) ==
  LET compiled == [i \in 1..Len(routes) |-> NewRegExp(routes[i])]
  IN [ok |-> \A i \in 1..Len(routes) : compiled[i].ok,
      regexps |-> [i \in 1..Len(routes) |-> compiled[i].terms]]

configureHttpInspectorInbound ==
  /\ ~listening
  /\ configured["inspector"] = "no"
  /\ LET httpInspection == ConfigGet(envMode, "inbound")
         compiled == CompileRoutes(optRoutes)
     IN IF httpInspection \notin {"all", "inbound"}
        THEN /\ configured' = [configured EXCEPT !["inspector"] = "returned"]
             /\ UNCHANGED <<middlewares, ignoredRoutes, configLog>>
        ELSE IF ~compiled.ok
        THEN /\ configured' = [configured EXCEPT !["inspector"] = "threw"]
             /\ configLog' = Append(configLog, "ignore routes")
             /\ UNCHANGED <<middlewares, ignoredRoutes>>
        ELSE /\ configured' = [configured EXCEPT !["inspector"] = "returned"]
             /\ ignoredRoutes' = compiled.regexps
             /\ middlewares' = Append(middlewares, "inspector")
             /\ configLog' = configLog \o <<"ignore routes", "initialized">>
  /\ UNCHANGED <<envMode, optRoutes, listening, req, pc, pos, res, closure,
                 nextCalls, logs, origCalls, emitted, lastCall>>

configureLogHttpMiddleware ==
  /\ ~listening
  /\ configured["audit"] = "no"
  /\ configured' = [configured EXCEPT !["audit"] = "returned"]
  /\ middlewares' = Append(middlewares, "audit")
  /\ UNCHANGED <<envMode, optRoutes, ignoredRoutes, configLog, listening, req,
                 pc, pos, res, closure, nextCalls, logs, origCalls, emitted,
                 lastCall>>

\* The bootstrap ends: the application starts to serve requests.
Listen ==
  /\ ~listening
  /\ listening' = TRUE
  /\ UNCHANGED <<envMode, optRoutes, configured, middlewares, ignoredRoutes,
                 configLog, req, pc, pos, res, closure, nextCalls, logs,
                 origCalls, emitted, lastCall>>

\* ------------------------------------------------------------------- use
\* The framework hands a request to the first middleware of the chain, or to
\* the route handler when the chain is empty.
Arrive(r, path) ==
  /\ listening
  /\ pc[r] = "idle"
  /\ req' = [req EXCEPT ![r] = [path |-> path]]
  /\ pos' = [pos EXCEPT ![r] = 1]
  /\ pc' = [pc EXCEPT ![r] = IF middlewares = <<>> THEN "handling" ELSE "chain"]
  /\ UNCHANGED <<configVars, res, closure, nextCalls, logs, origCalls, emitted,
                 lastCall>>

\* let responseBody = null; const originalSend = res.send; res.send = ...;
\* const originalJson = res.json; res.json = ...; res.on('finish', ...); next()
Intercept(r, m) ==
  /\ closure' = [closure EXCEPT ![r][m] =
                   [installed |-> TRUE,
                    responseBody |-> Null,
                    originalSend |-> res[r].send,
                    originalJson |-> res[r].json]]
  /\ res' = [res EXCEPT ![r].send = m, ![r].json = m,
                        ![r].finish = Append(@, m)]
  /\ nextCalls' = [nextCalls EXCEPT ![r][m] = @ + 1]

\* if (this.shouldIgnoreRoute(req)) { return next(); }
InspectorUseIgnoresNothing(r) == Intercept(r, "inspector")

InspectorUse(r) ==
  IF shouldIgnoreRoute(ignoredRoutes, req[r].path)
  THEN /\ nextCalls' = [nextCalls EXCEPT ![r]["inspector"] = @ + 1]
       /\ UNCHANGED <<closure, res>>
  ELSE Intercept(r, "inspector")

LogHttpUse(r) == Intercept(r, "audit")

\* One middleware of the chain runs up to its call of next(), which hands the
\* request to the next layer.
Use(r) ==
  /\ pc[r] = "chain"
  /\ IF middlewares[pos[r]] = "inspector" THEN InspectorUse(r) ELSE LogHttpUse(r)
  /\ pos' = [pos EXCEPT ![r] = @ + 1]
  /\ pc' = [pc EXCEPT ![r] = IF pos[r] = Len(middlewares) THEN "handling" ELSE "chain"]
  /\ UNCHANGED <<configVars, req, logs, origCalls, emitted, lastCall>>

\* -------------------------------------------------------------- emission
\* JavaScript's !v
Falsy(v) == v \in {Null, "", "0", "false"}

\* if (!responseBody) { responseBody = body; }
StoreBodyShared(cl, r, m, body) ==
  [q \in Rids |->
     IF cl[q][m].installed /\ Falsy(cl[q][m].responseBody)
     THEN [cl[q] EXCEPT ![m].responseBody = body]
     ELSE cl[q]]

StoreBody(cl, r, m, body) ==
  IF Falsy(cl[r][m].responseBody)
  THEN [cl EXCEPT ![r][m].responseBody = body]
  ELSE cl

\* Express' own operation: it is invoked with the body, and either returns
\* the response object or throws.
NativeEmit(st, r, op, body) ==
  [st EXCEPT !.origCalls[r] = Append(@, [op |-> op, body |-> body]),
             !.nativeOutcome = IF st.throws THEN "threw" ELSE "returned",
             !.outcome = IF st.throws THEN "threw" ELSE "returned",
             !.ret = IF st.throws THEN "undefined" ELSE r]

RECURSIVE CallSend(_, _, _)
RECURSIVE CallJson(_, _, _)

\* mutants of the send wrapper
CallSendSkipsInner(st, r, body) ==
  LET m == st.res[r].send
  IN IF m = Native THEN NativeEmit(st, r, "send", body)
     ELSE CallSend([st EXCEPT !.closure = StoreBody(@, r, m, body),
                              !.res[r].send = Native], r, body)

CallSendSwallows(st, r, body) ==
  LET m == st.res[r].send
  IN IF m = Native THEN NativeEmit(st, r, "send", body)
     ELSE [CallSend([st EXCEPT !.closure = StoreBody(@, r, m, body),
                               !.res[r].send = st.closure[r][m].originalSend],
                    r, body)
             EXCEPT !.outcome = "returned", !.ret = r]

CallSendDropsBody(st, r, body) ==
  LET m == st.res[r].send
  IN IF m = Native THEN NativeEmit(st, r, "send", body)
     ELSE CallSend([st EXCEPT !.closure = StoreBody(@, r, m, body),
                              !.res[r].send = st.closure[r][m].originalSend],
                   r, Null)

\* res.send(body): Express' operation, or the wrapper a middleware installed:
\*   if (!responseBody) { responseBody = body; }
\*   res.send = originalSend; return res.send(body);
CallSend(st, r, body) ==
  LET m == st.res[r].send
  IN IF m = Native THEN NativeEmit(st, r, "send", body)
     ELSE CallSend([st EXCEPT !.closure = StoreBody(@, r, m, body),
                              !.res[r].send = st.closure[r][m].originalSend],
                   r, body)

\* res.json(body), likewise
CallJson(st, r, body) ==
  LET m == st.res[r].json
  IN IF m = Native THEN NativeEmit(st, r, "json", body)
     ELSE CallJson([st EXCEPT !.closure = StoreBody(@, r, m, body),
                              !.res[r].json = st.closure[r][m].originalJson],
                   r, body)

\* The wrappers a call of res[op] goes through, outermost first: the one the
\* property holds now, then the one that wrapper restores, and so on.
RECURSIVE Wrappers(_, _, _)
Wrappers(fn, cl, op) ==
  IF fn = Native THEN <<>>
  ELSE <<fn>> \o Wrappers(IF op = "send" THEN cl[fn].originalSend
                                          ELSE cl[fn].originalJson, cl, op)

\* The route handler calls res.send(body) or res.json(body); the original
\* operation returns or throws.  lastCall keeps what the call was given, what
\* the cells held before it, and what the caller got.
Emit(r, op, body, throws) ==
  /\ pc[r] = "handling"
  /\ Len(emitted[r]) < MaxEmit
  /\ LET st0 == [res |-> res, closure |-> closure, origCalls |-> origCalls,
                 throws |-> throws, nativeOutcome |-> "none",
                 outcome |-> "none", ret |-> "undefined"]
         st == IF op = "send" THEN CallSend(st0, r, body) ELSE CallJson(st0, r, body)
         fn == IF op = "send" THEN res[r].send ELSE res[r].json
     IN /\ res' = st.res
        /\ closure' = st.closure
        /\ origCalls' = st.origCalls
        /\ lastCall' = [rid |-> r, op |-> op, body |-> body,
                        through |-> Wrappers(fn, closure[r], op),
                        before |-> [m \in Variants |-> closure[r][m].responseBody],
                        nativeOutcome |-> st.nativeOutcome,
                        outcome |-> st.outcome, ret |-> st.ret]
  /\ emitted' = [emitted EXCEPT ![r] = Append(@, [op |-> op, body |-> body])]
  /\ UNCHANGED <<configVars, req, pc, pos, nextCalls, logs>>

\* The route handler sets the status code (res.status(code)).
SetStatus(r, code) ==
  /\ pc[r] = "handling"
  /\ res[r].statusCode # code
  /\ res' = [res EXCEPT ![r].statusCode = code]
  /\ UNCHANGED <<configVars, req, pc, pos, closure, nextCalls, logs, origCalls,
                 emitted, lastCall>>

\* ---------------------------------------------------------------- finish
\* The 'finish' listener of use(): one record, at the level of the status code
\* as it is now, with the body the closure holds.
LogRecord(r, m) ==
  [level |-> getLogLevel(res[r].statusCode),
   rid |-> r,
   statusCode |-> res[r].statusCode,
   body |-> closure[r][m].responseBody]

OnFinishTwice(lg, r, m) ==
  [lg EXCEPT ![m] = Append(Append(@, LogRecord(r, m)), LogRecord(r, m))]

OnFinish(lg, r, m) == [lg EXCEPT ![m] = Append(@, LogRecord(r, m))]

RECURSIVE EmitFinish(_, _, _)
EmitFinish(lg, r, listeners) ==
  IF listeners = <<>> THEN lg
  ELSE EmitFinish(OnFinish(lg, r, Head(listeners)), r, Tail(listeners))

\* The response's 'finish' event fires, once, and its listeners run in the
\* order they were registered.
Finish(r) ==
  /\ pc[r] = "handling"
  /\ pc' = [pc EXCEPT ![r] = "finished"]
  /\ logs' = EmitFinish(logs, r, res[r].finish)
  /\ UNCHANGED <<configVars, req, pos, res, closure, nextCalls, origCalls,
                 emitted, lastCall>>

\* ------------------------------------------------------- specifications
InitRequests ==
  /\ configured = [m \in Variants |-> "no"]
  /\ middlewares = <<>>
  /\ ignoredRoutes = <<>>
  /\ configLog = <<>>
  /\ listening = FALSE
  /\ req = [r \in Rids |-> [path |-> <<>>]]
  /\ pc = [r \in Rids |-> "idle"]
  /\ pos = [r \in Rids |-> 0]
  /\ res = [r \in Rids |-> [send |-> Native, json |-> Native,
                            statusCode |-> 200, finish |-> <<>>]]
  /\ closure = [r \in Rids |-> [m \in Variants |->
                  [installed |-> FALSE, responseBody |-> Null,
                   originalSend |-> Native, originalJson |-> Native]]]
  /\ nextCalls = [r \in Rids |-> [m \in Variants |-> 0]]
  /\ logs = [m \in Variants |-> <<>>]
  /\ origCalls = [r \in Rids |-> <<>>]
  /\ emitted = [r \in Rids |-> <<>>]
  /\ lastCall = [rid |-> "none", op |-> "none", body |-> Null,
                 through |-> <<>>, before |-> [m \in Variants |-> Null],
                 nativeOutcome |-> "none", outcome |-> "none", ret |-> "undefined"]

\* One request at a time, every body and every failure of the original
\* operation.
Init ==
  /\ envMode \in {"absent", "none"}
  /\ optRoutes \in FewRouteLists
  /\ InitRequests

Next ==
  \/ configureHttpInspectorInbound
  \/ configureLogHttpMiddleware
  \/ Listen
  \/ \E path \in FewPaths : Arrive("r1", path)
  \/ Use("r1")
  \/ \E op \in {"send", "json"}, body \in AllBodies, throws \in BOOLEAN :
       Emit("r1", op, body, throws)
  \/ \E code \in StatusCodes : SetStatus("r1", code)
  \/ Finish("r1")

Spec == Init /\ [][Next]_vars

\* Two requests in flight on the same middleware instances.
InitConc ==
  /\ envMode = "inbound"
  /\ optRoutes = <<RouteAStar>>
  /\ InitRequests

NextConc ==
  \/ configureHttpInspectorInbound
  \/ configureLogHttpMiddleware
  \/ Listen
  \/ \E r \in Rids : Arrive(r, <<"/", "a">>)
  \/ \E r \in Rids : Use(r)
  \/ \E r \in Rids, op \in {"send", "json"}, body \in {"x", ""} :
       Emit(r, op, body, FALSE)
  \/ \E r \in Rids, code \in {200, 500} : SetStatus(r, code)
  \/ \E r \in Rids : Finish(r)

SpecConc == InitConc /\ [][NextConc]_vars

\* Every mode and every list of ignore patterns, and the paths they are
\* tested on.
InitRoutes ==
  /\ envMode \in Modes
  /\ optRoutes \in AllRouteLists
  /\ InitRequests

NextRoutes ==
  \/ configureHttpInspectorInbound
  \/ Listen
  \/ \E path \in AllPaths : Arrive("r1", path)
  \/ Use("r1")

SpecRoutes == InitRoutes /\ [][NextRoutes]_vars


\* ------------------------------------------------------------ properties
\* The documented meaning of an ignore pattern: every `*` stands for one or
\* more characters, every other character for itself in either case, and the
\* pattern covers the whole of the string.
RECURSIVE WildcardMatch(_, _)
WildcardMatch(p, s) ==
  IF p = <<>> THEN s = <<>>
  ELSE IF Head(p) = "*"
  THEN \E k \in 1..Len(s) : WildcardMatch(Tail(p), SubSeq(s, k + 1, Len(s)))
  ELSE /\ s # <<>>
       /\ Canonicalize(Head(p)) = Canonicalize(Head(s))
       /\ WildcardMatch(Tail(p), Tail(s))

\* The status-code table of the documentation.
Severity(c) ==
  CASE c >= 500 -> "error"
    [] c >= 400 /\ c < 500 -> "warn"
    [] OTHER -> "log"

InspectorRan(r) == nextCalls[r]["inspector"] > 0
Ignored(r) == InspectorRan(r) /\ ~closure[r]["inspector"].installed
RecordsOf(r, m) == {i \in 1..Len(logs[m]) : logs[m][i].rid = r}
BodiesOf(r) == {emitted[r][i].body : i \in 1..Len(emitted[r])}
OpsOf(r) == {emitted[r][i].op : i \in 1..Len(emitted[r])}

\* C1: once the inspector has looked at a request, it has ignored it if and
\* only if the trimmed path matches, in full and in either case, one of the
\* configured patterns with every `*` read as one or more characters.
C1_IgnoredIffWildcardMatch ==
  \A r \in Rids :
    InspectorRan(r) =>
      (Ignored(r) <=>
         \E i \in 1..Len(optRoutes) : WildcardMatch(optRoutes[i], Trim(req[r].path)))

\* C2: the body in a request's log record is the first payload the handler
\* emitted, whatever its value.
C2_RecordHoldsFirstBody ==
  \A m \in Variants : \A i \in 1..Len(logs[m]) :
    emitted[logs[m][i].rid] # <<>> =>
      logs[m][i].body = emitted[logs[m][i].rid][1].body

\* C3: interception is transparent: the calls that reach the original
\* operations are the handler's calls, same operation, same argument, same
\* order, once each, and the caller gets what the original operation gave
\* (its return value, or its failure).
C3_Transparent ==
  /\ \A r \in Rids : origCalls[r] = emitted[r]
  /\ lastCall.rid # "none" =>
       /\ lastCall.outcome = lastCall.nativeOutcome
       /\ lastCall.ret = IF lastCall.nativeOutcome = "returned"
                         THEN lastCall.rid ELSE "undefined"

C3_Witness ==
  /\ closure["r1"]["inspector"].installed
  /\ closure["r1"]["audit"].installed
  /\ Len(emitted["r1"]) = 2
  /\ emitted["r1"][1] # emitted["r1"][2]
  /\ lastCall.through # <<>>
  /\ lastCall.nativeOutcome = "returned"

\* C4: every record is logged at the severity of the status code the
\* response has at its completion: 399 log, 400 and 499 warn, 500 error.
C4_LevelOfFinalStatus ==
  \A m \in Variants : \A i \in 1..Len(logs[m]) :
    LET rec == logs[m][i]
        code == res[rec.rid].statusCode
    IN /\ rec.level = Severity(code)
       /\ code = 399 => rec.level = "log"
       /\ code \in {400, 499} => rec.level = "warn"
       /\ code = 500 => rec.level = "error"

C4_Witness ==
  \E m \in Variants : \E i \in 1..Len(logs[m]) :
    /\ logs[m][i].statusCode = 400
    /\ logs[m][i].level = "warn"
    /\ res[logs[m][i].rid].statusCode = 400

\* C5: a request the inspector's matcher reports as ignored never gets a
\* record from the inspector, and next() has been called for it, once.
C5_IgnoredNeverLogged ==
  \A r \in Rids :
    InspectorRan(r) /\ shouldIgnoreRoute(ignoredRoutes, req[r].path) =>
      /\ RecordsOf(r, "inspector") = {}
      /\ nextCalls[r]["inspector"] = 1
      /\ "inspector" \notin {res[r].finish[i] : i \in 1..Len(res[r].finish)}

C5_Witness ==
  /\ InspectorRan("r1")
  /\ shouldIgnoreRoute(ignoredRoutes, req["r1"].path)
  /\ Len(emitted["r1"]) = 2
  /\ pc["r1"] = "finished"

\* C6: a middleware that intercepted a request has logged exactly one record
\* for it once its completion has fired, and none before: not in use(), not
\* in an emission call.
C6_OneRecordAtFinish ==
  \A r \in Rids : \A m \in Variants :
    Cardinality(RecordsOf(r, m)) =
      IF pc[r] = "finished" /\ closure[r][m].installed THEN 1 ELSE 0

C6_Witness ==
  /\ pc["r1"] = "finished"
  /\ closure["r1"]["inspector"].installed
  /\ closure["r1"]["audit"].installed
  /\ Len(emitted["r1"]) = 2

\* C7, as claimed: when the original operation throws under a wrapper, the
\* caller gets the failure and the wrapper's cell holds the payload of that
\* call.
C7_ThrowAfterRecordingPayload ==
  lastCall.nativeOutcome = "threw" /\ lastCall.through # <<>> =>
    /\ lastCall.outcome = "threw"
    /\ \A i \in 1..Len(lastCall.through) :
         closure[lastCall.rid][lastCall.through[i]].responseBody = lastCall.body

\* C7, amended: when the original operation throws under a wrapper, the
\* caller gets the failure, no value is returned, and the capture step has
\* run: a cell that held a falsy value before the call holds the payload of
\* that call, and a cell that held a truthy value keeps it.
C7_ThrowAfterCaptureStep ==
  lastCall.nativeOutcome = "threw" /\ lastCall.through # <<>> =>
    /\ lastCall.outcome = "threw"
    /\ lastCall.ret = "undefined"
    /\ \A i \in 1..Len(lastCall.through) :
         LET m == lastCall.through[i]
         IN closure[lastCall.rid][m].responseBody =
              IF Falsy(lastCall.before[m]) THEN lastCall.body
              ELSE lastCall.before[m]

C7_Witness ==
  /\ lastCall.nativeOutcome = "threw"
  /\ lastCall.outcome = "threw"
  /\ Len(lastCall.through) = 2
  /\ lastCall.body = "x"
  /\ \A m \in Variants : closure[lastCall.rid][m].responseBody = "x"

\* A cell holds null or a body emitted on its own response (the first one,
\* when that one is truthy), and a record carries its own request's cell and
\* status code.
C8_CellsOwn ==
  /\ \A r \in Rids : \A m \in Variants :
       closure[r][m].installed =>
         /\ closure[r][m].responseBody \in BodiesOf(r) \cup {Null}
         /\ (emitted[r] # <<>> /\ ~Falsy(emitted[r][1].body)) =>
              closure[r][m].responseBody = emitted[r][1].body
  /\ \A m \in Variants : \A i \in 1..Len(logs[m]) :
       /\ logs[m][i].body = closure[logs[m][i].rid][m].responseBody
       /\ logs[m][i].statusCode = res[logs[m][i].rid].statusCode

\* A step that emits on one response leaves the other requests as they were.
C8_EmitLeavesOthers ==
  \A r \in Rids : \A q \in Rids \ {r} :
    emitted'[r] # emitted[r] => closure'[q] = closure[q] /\ res'[q] = res[q]

\* C8: each request has its own capture cell: the cells and records are
\* always their own request's, and no emission step on one response changes
\* another request's closure or response.
C8_Isolation == []C8_CellsOwn /\ [][C8_EmitLeavesOthers]_vars

C8_Witness ==
  /\ \A r \in Rids : pc[r] = "finished"
  /\ \E i, j \in 1..Len(logs["inspector"]) :
       /\ logs["inspector"][i].rid = "r1" /\ logs["inspector"][i].body = "x"
       /\ logs["inspector"][i].statusCode = 500
       /\ logs["inspector"][j].rid = "r2" /\ logs["inspector"][j].body = ""
       /\ logs["inspector"][j].statusCode = 200
  /\ Len(logs["audit"]) = 2

\* C9: once configureHttpInspectorInbound has run, the inspector is in the
\* application's chain if and only if the mode is 'all' or 'inbound', an
\* absent mode counting as 'inbound'.
C9_RegisteredIffMode ==
  configured["inspector"] # "no" =>
    (("inspector" \in {middlewares[i] : i \in 1..Len(middlewares)})
       <=> envMode \in {"all", "inbound", "absent"})

\* C10: with both variants installed on a response, in either order, every
\* call reaches the original operation once, the two cells hold the same
\* value (the first payload, when that payload is truthy), and once send and
\* json have both been called both properties are Express' own again.
C10_Stacked ==
  \A r \in Rids :
    closure[r]["inspector"].installed /\ closure[r]["audit"].installed =>
      /\ origCalls[r] = emitted[r]
      /\ closure[r]["inspector"].responseBody = closure[r]["audit"].responseBody
      /\ (emitted[r] # <<>> /\ ~Falsy(emitted[r][1].body)) =>
           closure[r]["audit"].responseBody = emitted[r][1].body
      /\ OpsOf(r) = {"send", "json"} =>
           res[r].send = Native /\ res[r].json = Native
      /\ "send" \notin OpsOf(r) => res[r].send \in Variants
      /\ "json" \notin OpsOf(r) => res[r].json \in Variants

C10_Witness ==
  /\ middlewares = <<"audit", "inspector">>
  /\ closure["r1"]["inspector"].installed
  /\ closure["r1"]["audit"].installed
  /\ OpsOf("r1") = {"send", "json"}
  /\ closure["r1"]["audit"].responseBody = "y"
  /\ res["r1"].send = Native

=============================================================================
